---- MODULE Spec2Model ----
(***************************************************************************)
(* Model of src/monitor.py: the room temperature / humidity monitor loop.  *)
(*                                                                         *)
(* Readings are Python floats in the source.  Here they are fixed-point    *)
(* integers counted in 1/Scale of a unit (degree or percent), so that      *)
(* c_to_f, the 0.3 threshold and the two-decimal formatting are exact.     *)
(* The readings drawn below are multiples of 5 (so that *9/5 is exact) and *)
(* never fall on a rounding tie of the ":.2f" format.                      *)
(*                                                                         *)
(* One tick of "while True" is cut at the calls that can raise or block:   *)
(*   read -> append -> render -> log -> btnA [-> avgHold] -> btnB          *)
(*        [-> snapHold] -> sleep -> read,    any failure -> backoff -> read *)
(***************************************************************************)
EXTENDS Integers, Sequences, FiniteSets, TLC

VARIABLES
    pc,             \* position of the main loop
    temperature_c,  \* line 144: last Celsius reading (1/Scale degree)
    humidity,       \* line 144: last humidity reading (1/Scale percent)
    history,        \* line 69: deque(maxlen=900) of (temperature_c, humidity)
    prev_temp,      \* line 67: last logged Fahrenheit value, None or <<v>>
    prev_humidity,  \* line 68: last logged humidity, None or <<v>>
    frame,          \* line 139: animation frame counter
    progress,       \* line 98: indicator fill last drawn on the canvas (line 99)
    screen,         \* what display.image() last put on the panel
    button_A,       \* line 162: button_A.value as last polled (TRUE = released)
    button_B,       \* line 166: button_B.value as last polled (TRUE = released)
    logFile,        \* LOG_FILE: the lines appended so far
    snapFile,       \* SNAPSHOT_FILE: the lines appended so far
    trace,          \* what the current loop iteration has done so far
    pushed,         \* every sample ever handed to history.append, in order
    fails,          \* exceptions caught by "except Exception" so far
    consec          \* sensor read failures since the last successful read

vars == <<pc, temperature_c, humidity, history, prev_temp, prev_humidity,
          frame, progress, screen, button_A, button_B, logFile, snapFile,
          trace, pushed, fails, consec>>

----------------------------------------------------------------------------
(* Bounds of the model (not program constants).                            *)

\* successful sensor reads explored with freely chosen readings and buttons
MaxPushes == 4
\* caught exceptions explored with freely chosen readings and buttons
MaxFails == 2
\* successful sensor reads explored when every call may raise
MaxPushesFaults == 2
\* caught exceptions explored when every call may raise
MaxFailsFaults == 2
\* successful sensor reads of the long scripted run (beyond the deque's 900)
MaxPushesLong == 903
\* caught exceptions of the long scripted run
MaxFailsLong == 1

----------------------------------------------------------------------------
(* Program constants and pure functions.                                   *)

\* fixed-point resolution of a reading: 1/80 of a degree or percent
Scale == 80

\* line 69: collections.deque(maxlen=900)
MAXLEN == 900

\* line 95: bar_width = 50
bar_width == 50

\* lines 67-68: prev_temp = None
None == <<>>

Abs(x) == IF x < 0 THEN -x ELSE x

\* line 73: celsius * 9 / 5 + 32
c_to_f(celsius) == (celsius * 9) \div 5 + 32 * Scale

\* line 145: temperature_f = c_to_f(temperature_c)
temperature_f == c_to_f(temperature_c)

\* line 157: abs(a - b) > 0.3
Exceeds(a, b) == Abs(a - b) * 10 > 3 * Scale

\* the ":.2f" format of lines 78 and 84: the value rounded to hundredths
Fmt2(x) == (x * 100 + Scale \div 2) \div Scale

\* lines 78, 84: the text written after the timestamp, with its newline
Line(temp_f, hum) == [temp |-> Fmt2(temp_f), hum |-> Fmt2(hum), newline |-> TRUE]

\* lines 77-78, 83-84: what a write that raises can leave in the file: the
\* text of the line without its newline, or a fragment cut before its values
Torn(l) == { [l EXCEPT !.newline = FALSE], [cut |-> TRUE] }

\* the indicator without the modulo: the fill grows with the frame counter
draw_running_indicator_nowrap(f) == f

\* line 98: progress = frame % bar_width
draw_running_indicator(f) == f % bar_width

\* a deque that refuses new entries when full instead of dropping the oldest
HistoryAppendKeepOldest(h, x) == IF Len(h) < MAXLEN THEN Append(h, x) ELSE h

\* a deque built with maxlen=0: it never holds anything
HistoryAppendZeroLen(h, x) == <<>>

\* lines 69, 150: deque.append with maxlen: the oldest entry is dropped when full
HistoryAppend(h, x) ==
    IF Len(h) < MAXLEN THEN Append(h, x) ELSE Append(Tail(h), x)

\* line 157: prev_temp is None or abs(..) > 0.3 or abs(..) > 0.3
NeedsLog ==
    IF prev_temp = None
       THEN TRUE
       ELSE \/ Exceeds(temperature_f, prev_temp[1])
            \/ Exceeds(humidity, prev_humidity[1])

\* the seconds a step of the loop blocks in time.sleep (lines 91, 135, 170, 175)
Duration(e) ==
    CASE e = "hold3"  -> 3
      [] e = "hold2"  -> 2
      [] e = "sleep1" -> 1
      [] e = "sleep2" -> 2
      [] OTHER        -> 0

RECURSIVE Slept(_)
\* the seconds slept by the steps of a trace
Slept(t) == IF t = <<>> THEN 0 ELSE Duration(Head(t)) + Slept(Tail(t))

Has(t, e) == \E i \in 1..Len(t) : t[i] = e

----------------------------------------------------------------------------
(* Inputs.                                                                 *)

\* readings the sensor may return: 20 C / 50 % and small steps around it.
\* In Fahrenheit the three temperatures are 68.0, 68.1125 and 68.3375, so one
\* step is below 0.3 F and the two steps together are above it; the humidity
\* steps are 0.25 % and 0.5 %.
SensorInputs ==
    { <<1600, 4000>>, <<1605, 4000>>, <<1615, 4000>>,
      <<1600, 4020>>, <<1600, 4040>> }

\* the reading of the long scripted run after n successful reads
Script(n) == << 5 * (320 + 4 * (n % 9) + (n % 2)), 4000 + 20 * (n % 5) >>

----------------------------------------------------------------------------
(* Initial state: lines 66-69 and 139, nothing drawn or written yet.       *)

Init ==
    /\ pc = "read"
    /\ temperature_c = 0
    /\ humidity = 0
    /\ history = <<>>
    /\ prev_temp = None
    /\ prev_humidity = None
    /\ frame = 0
    /\ progress = 0
    /\ screen = "blank"
    /\ button_A = TRUE
    /\ button_B = TRUE
    /\ logFile = <<>>
    /\ snapFile = <<>>
    /\ trace = <<>>
    /\ pushed = <<>>
    /\ fails = 0
    /\ consec = 0

----------------------------------------------------------------------------
(* The main loop, lines 141-175.                                           *)

\* line 144, the read succeeds: temperature_c, humidity = sensor.measurements
Sample(inputs, maxPushes) ==
    /\ pc = "read"
    /\ Len(pushed) < maxPushes
    /\ \E m \in inputs :
          /\ temperature_c' = m[1]
          /\ humidity' = m[2]
    /\ pc' = "append"
    /\ trace' = <<"read">>
    /\ consec' = 0
    /\ UNCHANGED <<history, prev_temp, prev_humidity, frame, progress, screen,
                   button_A, button_B, logFile, snapFile, pushed, fails>>

\* a failed read that re-uses the previous reading as this tick's sample
SensorFailSubstitute(maxFails) ==
    /\ pc = "read"
    /\ fails < maxFails
    /\ history' = HistoryAppend(history, <<temperature_c, humidity>>)
    /\ pc' = "backoff"
    /\ trace' = <<"read", "error">>
    /\ fails' = fails + 1
    /\ consec' = consec + 1
    /\ UNCHANGED <<temperature_c, humidity, prev_temp, prev_humidity,
                   frame, progress, screen, button_A, button_B, logFile,
                   snapFile, pushed>>

\* line 144 raises; lines 172-174 catch and report it
SensorFail(maxFails) ==
    /\ pc = "read"
    /\ fails < maxFails
    /\ pc' = "backoff"
    /\ trace' = <<"read", "error">>
    /\ fails' = fails + 1
    /\ consec' = consec + 1
    /\ UNCHANGED <<temperature_c, humidity, history, prev_temp, prev_humidity,
                   frame, progress, screen, button_A, button_B, logFile,
                   snapFile, pushed>>

\* line 150: history.append((temperature_c, humidity))
Store ==
    /\ pc = "append"
    /\ history' = HistoryAppend(history, <<temperature_c, humidity>>)
    /\ pushed' = Append(pushed, <<temperature_c, humidity>>)
    /\ pc' = "render"
    /\ trace' = Append(trace, "append")
    /\ UNCHANGED <<temperature_c, humidity, prev_temp, prev_humidity, frame,
                   progress, screen, button_A, button_B, logFile, snapFile,
                   fails, consec>>

\* lines 153-154: draw_graphical_display(temperature_f, humidity, frame); frame += 2
Render ==
    /\ pc = "render"
    /\ progress' = draw_running_indicator(frame)
    /\ screen' = "default"
    /\ frame' = frame + 2
    /\ pc' = "log"
    /\ trace' = Append(trace, "render")
    /\ UNCHANGED <<temperature_c, humidity, history, prev_temp, prev_humidity,
                   button_A, button_B, logFile, snapFile, pushed, fails, consec>>

\* the change check against the last observed reading: prev_* follow every tick
LogCheckLastObserved ==
    /\ pc = "log"
    /\ IF NeedsLog
          THEN /\ logFile' = Append(logFile, Line(temperature_f, humidity))
               /\ trace' = Append(trace, "logged")
          ELSE /\ UNCHANGED logFile
               /\ trace' = Append(trace, "nolog")
    /\ prev_temp' = <<temperature_f>>
    /\ prev_humidity' = <<humidity>>
    /\ pc' = "btnA"
    /\ UNCHANGED <<temperature_c, humidity, history, frame, progress, screen,
                   button_A, button_B, snapFile, pushed, fails, consec>>

\* lines 157-159: log_change and the update of prev_temp, prev_humidity
LogCheck ==
    /\ pc = "log"
    /\ IF NeedsLog
          THEN /\ logFile' = Append(logFile, Line(temperature_f, humidity))
               /\ prev_temp' = <<temperature_f>>
               /\ prev_humidity' = <<humidity>>
               /\ trace' = Append(trace, "logged")
          ELSE /\ UNCHANGED <<logFile, prev_temp, prev_humidity>>
               /\ trace' = Append(trace, "nolog")
    /\ pc' = "btnA"
    /\ UNCHANGED <<temperature_c, humidity, history, frame, progress, screen,
                   button_A, button_B, snapFile, pushed, fails, consec>>

\* an average view that is drawn but not held: no time.sleep(3)
PollANoHold(values) ==
    /\ pc = "btnA"
    /\ \E v \in values :
          /\ button_A' = v
          /\ IF v
                THEN /\ trace' = Append(trace, "A:up")
                     /\ UNCHANGED screen
                ELSE /\ trace' = Append(trace, "avg")
                     /\ screen' = "average"
    /\ pc' = "btnB"
    /\ UNCHANGED <<temperature_c, humidity, history, prev_temp, prev_humidity,
                   frame, progress, button_B, logFile, snapFile, pushed, fails,
                   consec>>

\* lines 162-164 and 120-134: poll button A; when pressed (value low) enter
\* draw_average_display, which returns at once on an empty history and
\* otherwise draws the average view
PollA(values) ==
    /\ pc = "btnA"
    /\ \E v \in values :
          /\ button_A' = v
          /\ IF v
                THEN /\ pc' = "btnB"
                     /\ trace' = Append(trace, "A:up")
                     /\ UNCHANGED screen
                ELSE IF Len(history) = 0
                        THEN /\ pc' = "btnB"
                             /\ trace' = Append(trace, "avg:empty")
                             /\ UNCHANGED screen
                        ELSE /\ pc' = "avgHold"
                             /\ trace' = Append(trace, "avg")
                             /\ screen' = "average"
    /\ UNCHANGED <<temperature_c, humidity, history, prev_temp, prev_humidity,
                   frame, progress, button_B, logFile, snapFile, pushed, fails,
                   consec>>

\* line 135: time.sleep(3) inside draw_average_display
AvgHold ==
    /\ pc = "avgHold"
    /\ pc' = "btnB"
    /\ trace' = Append(trace, "hold3")
    /\ UNCHANGED <<temperature_c, humidity, history, prev_temp, prev_humidity,
                   frame, progress, screen, button_A, button_B, logFile,
                   snapFile, pushed, fails, consec>>

\* button B polled with "elif": its press is ignored when A was pressed
PollBElif(values) ==
    /\ pc = "btnB"
    /\ \E v \in values :
          /\ button_B' = v
          /\ IF v \/ ~button_A
                THEN /\ pc' = "sleep"
                     /\ trace' = Append(trace, "B:up")
                     /\ UNCHANGED <<snapFile, screen>>
                ELSE /\ snapFile' = Append(snapFile, Line(temperature_f, humidity))
                     /\ screen' = "snapshot"
                     /\ pc' = "snapHold"
                     /\ trace' = Append(trace, "snap")
    /\ UNCHANGED <<temperature_c, humidity, history, prev_temp, prev_humidity,
                   frame, progress, button_A, logFile, pushed, fails, consec>>

\* a snapshot that is written only when the tick wrote no change-log line
PollBUnlessLogged(values) ==
    /\ pc = "btnB"
    /\ \E v \in values :
          /\ button_B' = v
          /\ IF v
                THEN /\ pc' = "sleep"
                     /\ trace' = Append(trace, "B:up")
                     /\ UNCHANGED <<snapFile, screen>>
                ELSE /\ snapFile' = IF Has(trace, "logged")
                                       THEN snapFile
                                       ELSE Append(snapFile, Line(temperature_f, humidity))
                     /\ screen' = "snapshot"
                     /\ pc' = "snapHold"
                     /\ trace' = Append(trace, "snap")
    /\ UNCHANGED <<temperature_c, humidity, history, prev_temp, prev_humidity,
                   frame, progress, button_A, logFile, pushed, fails, consec>>

\* lines 166-168 and 80-90: poll button B; when pressed write the snapshot
\* line and draw the confirmation view
PollB(values) ==
    /\ pc = "btnB"
    /\ \E v \in values :
          /\ button_B' = v
          /\ IF v
                THEN /\ pc' = "sleep"
                     /\ trace' = Append(trace, "B:up")
                     /\ UNCHANGED <<snapFile, screen>>
                ELSE /\ snapFile' = Append(snapFile, Line(temperature_f, humidity))
                     /\ screen' = "snapshot"
                     /\ pc' = "snapHold"
                     /\ trace' = Append(trace, "snap")
    /\ UNCHANGED <<temperature_c, humidity, history, prev_temp, prev_humidity,
                   frame, progress, button_A, logFile, pushed, fails, consec>>

\* line 91: time.sleep(2) inside save_snapshot
SnapHold ==
    /\ pc = "snapHold"
    /\ pc' = "sleep"
    /\ trace' = Append(trace, "hold2")
    /\ UNCHANGED <<temperature_c, humidity, history, prev_temp, prev_humidity,
                   frame, progress, screen, button_A, button_B, logFile,
                   snapFile, pushed, fails, consec>>

\* line 170: time.sleep(1), then the next iteration
TickSleep ==
    /\ pc = "sleep"
    /\ pc' = "read"
    /\ trace' = Append(trace, "sleep1")
    /\ UNCHANGED <<temperature_c, humidity, history, prev_temp, prev_humidity,
                   frame, progress, screen, button_A, button_B, logFile,
                   snapFile, pushed, fails, consec>>

\* an except branch that falls through to the tick's own time.sleep(1)
BackoffThenSleep ==
    /\ pc = "backoff"
    /\ pc' = "sleep"
    /\ trace' = Append(trace, "sleep2")
    /\ UNCHANGED <<temperature_c, humidity, history, prev_temp, prev_humidity,
                   frame, progress, screen, button_A, button_B, logFile,
                   snapFile, pushed, fails, consec>>

\* line 175: time.sleep(2) in the except branch, then the next iteration
Backoff ==
    /\ pc = "backoff"
    /\ pc' = "read"
    /\ trace' = Append(trace, "sleep2")
    /\ UNCHANGED <<temperature_c, humidity, history, prev_temp, prev_humidity,
                   frame, progress, screen, button_A, button_B, logFile,
                   snapFile, pushed, fails, consec>>

\* lines 177-178: KeyboardInterrupt passes "except Exception" and ends the
\* loop.  It arrives between two steps, or inside one, after the part of the
\* step that ran before it:
\*   render: the indicator is drawn (line 116), perhaps the panel updated
\*           (line 118), frame not advanced (line 154 not reached);
\*   log:    the line is written (line 158), prev_* not advanced (line 159);
\*   btnA:   the button is polled pressed (line 162), the panel not updated;
\*   btnB:   the button is polled pressed (line 166), the line perhaps
\*           written (lines 83-84), the panel not updated.
\* An interrupt after the rest of a step is the step followed by an interrupt.
Interrupt ==
    /\ pc \notin {"exited", "crashed"}
    /\ pc' = "exited"
    /\ \/ UNCHANGED <<progress, screen, button_A, button_B, logFile, snapFile>>
       \/ /\ pc = "render"
          /\ progress' = draw_running_indicator(frame)
          /\ screen' \in {screen, "default"}
          /\ UNCHANGED <<button_A, button_B, logFile, snapFile>>
       \/ /\ pc = "log"
          /\ NeedsLog
          /\ logFile' = Append(logFile, Line(temperature_f, humidity))
          /\ UNCHANGED <<progress, screen, button_A, button_B, snapFile>>
       \/ /\ pc = "btnA"
          /\ button_A' = FALSE
          /\ UNCHANGED <<progress, screen, button_B, logFile, snapFile>>
       \/ /\ pc = "btnB"
          /\ button_B' = FALSE
          /\ snapFile' \in {snapFile, Append(snapFile, Line(temperature_f, humidity))}
          /\ UNCHANGED <<progress, screen, button_A, logFile>>
    /\ UNCHANGED <<temperature_c, humidity, history, prev_temp, prev_humidity,
                   frame, trace, pushed, fails, consec>>

----------------------------------------------------------------------------
(* Failures of the later steps of a tick: every call inside the try block  *)
(* of lines 142-170 is covered by "except Exception" (line 172).           *)

\* what lines 172-175 do for an exception raised after the read
Caught(step) ==
    /\ pc' = "backoff"
    /\ trace' = Append(Append(trace, step), "error")
    /\ fails' = fails + 1
    /\ UNCHANGED <<temperature_c, humidity, history, prev_temp, prev_humidity,
                   frame, pushed, consec, screen>>

\* line 147 raises (print of the degree sign on a stdout that cannot encode
\* it): the reading is assigned, nothing is appended
PrintFail(maxFails) ==
    /\ pc = "append"
    /\ fails < maxFails
    /\ Caught("print!")
    /\ UNCHANGED <<progress, button_A, button_B, logFile, snapFile>>

\* line 153 raises inside draw_graphical_display, so line 154 is skipped:
\* either in display.image (line 118), after draw_running_indicator (line 116)
\* drew this frame's fill on the canvas, or in a drawing call before it
\* (lines 103-113); the panel is not updated in either case
RenderFail(maxFails) ==
    /\ pc = "render"
    /\ fails < maxFails
    /\ progress' \in {draw_running_indicator(frame), progress}
    /\ Caught("render!")
    /\ UNCHANGED <<button_A, button_B, logFile, snapFile>>

\* prev_* assigned before log_change is called, so a failed write advances them
LogFailPrevFirst(maxFails) ==
    /\ pc = "log"
    /\ NeedsLog
    /\ fails < maxFails
    /\ prev_temp' = <<temperature_f>>
    /\ prev_humidity' = <<humidity>>
    /\ pc' = "backoff"
    /\ trace' = Append(Append(trace, "log!"), "error")
    /\ fails' = fails + 1
    /\ UNCHANGED <<temperature_c, humidity, history, frame, progress, button_A,
                   button_B, logFile, pushed, consec, screen, snapFile>>

\* line 158 raises, so line 159 is skipped: in open (nothing is written) or
\* in the write (lines 77-78), which may leave part of the line in the file
LogFail(maxFails) ==
    /\ pc = "log"
    /\ NeedsLog
    /\ fails < maxFails
    /\ \/ logFile' = logFile
       \/ \E t \in Torn(Line(temperature_f, humidity)) : logFile' = Append(logFile, t)
    /\ Caught("log!")
    /\ UNCHANGED <<progress, button_A, button_B, snapFile>>

\* line 162 raises: button_A.value cannot be read, the button is not polled
PollAFail(maxFails) ==
    /\ pc = "btnA"
    /\ fails < maxFails
    /\ Caught("A!")
    /\ UNCHANGED <<progress, button_A, button_B, logFile, snapFile>>

\* line 162 polls button A pressed and line 164 raises (display.image in
\* draw_average_display, line 134, before the hold)
AvgFail(maxFails) ==
    /\ pc = "btnA"
    /\ Len(history) # 0
    /\ fails < maxFails
    /\ button_A' = FALSE
    /\ Caught("avg!")
    /\ UNCHANGED <<progress, button_B, logFile, snapFile>>

\* line 166 raises: button_B.value cannot be read, the button is not polled
PollBFail(maxFails) ==
    /\ pc = "btnB"
    /\ fails < maxFails
    /\ Caught("B!")
    /\ UNCHANGED <<progress, button_A, button_B, logFile, snapFile>>

\* line 166 polls button B pressed and line 168 raises in open (nothing is
\* written) or in the write of SNAPSHOT_FILE (lines 83-84), which may leave
\* part of the line in the file
SnapWriteFail(maxFails) ==
    /\ pc = "btnB"
    /\ fails < maxFails
    /\ button_B' = FALSE
    /\ \/ snapFile' = snapFile
       \/ \E t \in Torn(Line(temperature_f, humidity)) : snapFile' = Append(snapFile, t)
    /\ Caught("snap!")
    /\ UNCHANGED <<progress, button_A, logFile>>

\* line 166 polls button B pressed and line 168 raises in display.image
\* (line 90), after the line was written
SnapShowFail(maxFails) ==
    /\ pc = "btnB"
    /\ fails < maxFails
    /\ button_B' = FALSE
    /\ snapFile' = Append(snapFile, Line(temperature_f, humidity))
    /\ Caught("show!")
    /\ UNCHANGED <<progress, button_A, logFile>>

\* lines 173-174 raise (the handler's own print on a closed stdout): the
\* exception leaves the handler, is no KeyboardInterrupt, and ends the program
HandlerCrash ==
    /\ pc = "backoff"
    /\ pc' = "crashed"
    /\ UNCHANGED <<temperature_c, humidity, history, prev_temp, prev_humidity,
                   frame, progress, screen, button_A, button_B, logFile,
                   snapFile, trace, pushed, fails, consec>>

----------------------------------------------------------------------------
(* Specifications.                                                         *)

\* the loop with the faults the specification names: sensor read failures
\* and the interrupt, and with the handler of lines 172-175 as the code has it
\* (its own report may raise); the panel, the buttons and the files work
Next ==
    \/ Sample(SensorInputs, MaxPushes)
    \/ SensorFail(MaxFails)
    \/ Store
    \/ Render
    \/ LogCheck
    \/ PollA(BOOLEAN)
    \/ AvgHold
    \/ PollB(BOOLEAN)
    \/ SnapHold
    \/ TickSleep
    \/ Backoff
    \/ HandlerCrash
    \/ Interrupt

Spec == Init /\ [][Next]_vars

\* the loop when the calls of the try block may raise: the sensor read, the
\* print of the reading, the three drawing routines, the two file writes and
\* the two button reads; and when the handler's own print may raise.  (A
\* raise of the prints of lines 163 and 167 leaves the state of AvgFail and
\* of SnapWriteFail with nothing written.)
NextFaults ==
    \/ Sample(SensorInputs, MaxPushesFaults)
    \/ SensorFail(MaxFailsFaults)
    \/ Store
    \/ Render
    \/ LogCheck
    \/ PollA(BOOLEAN)
    \/ AvgHold
    \/ PollB(BOOLEAN)
    \/ SnapHold
    \/ TickSleep
    \/ Backoff
    \/ Interrupt
    \/ PrintFail(MaxFailsFaults)
    \/ RenderFail(MaxFailsFaults)
    \/ LogFail(MaxFailsFaults)
    \/ PollAFail(MaxFailsFaults)
    \/ AvgFail(MaxFailsFaults)
    \/ PollBFail(MaxFailsFaults)
    \/ SnapWriteFail(MaxFailsFaults)
    \/ SnapShowFail(MaxFailsFaults)
    \/ HandlerCrash

SpecFaults == Init /\ [][NextFaults]_vars

\* a long run on a scripted stream of readings with the buttons released
NextLong ==
    \/ Sample({Script(Len(pushed))}, MaxPushesLong)
    \/ SensorFail(MaxFailsLong)
    \/ Store
    \/ Render
    \/ LogCheck
    \/ PollA({TRUE})
    \/ PollB({TRUE})
    \/ TickSleep
    \/ Backoff

SpecLong == Init /\ [][NextLong]_vars

----------------------------------------------------------------------------
(* Helpers of the properties.                                              *)

Last(t) == t[Len(t)]

IsPrefix(p, t) == Len(p) <= Len(t) /\ SubSeq(t, 1, Len(p)) = p

Count(t, S) == Cardinality({i \in 1..Len(t) : t[i] \in S})

Pos(t, e) == CHOOSE i \in 1..Len(t) : t[i] = e

\* the traces of a tick that ran to its time.sleep(1)
TickTraces ==
    { <<"read", "append", "render", l>> \o a \o b \o <<"sleep1">> :
        l \in {"logged", "nolog"},
        a \in {<<"A:up">>, <<"avg", "hold3">>},
        b \in {<<"B:up">>, <<"snap", "hold2">>} }

\* the trace of a tick whose sensor read failed
FailedReadTrace == <<"read", "error", "sleep2">>

\* a step that reads the sensor (line 144), successfully or not
ReadStep == trace' # trace /\ trace' \in {<<"read">>, <<"read", "error">>}

\* a step in which "except Exception" catches something
CaughtStep == fails' = fails + 1

----------------------------------------------------------------------------
(* The claims.                                                             *)

\* C1: in each tick with a valid sample the change log gets exactly one new
\* line, carrying the tick's values, and the last-logged pair becomes the
\* current reading, if and only if there is no last-logged reading or the
\* Fahrenheit temperature or the humidity differs from the last LOGGED value
\* by more than 0.3; otherwise no line is written and the pair is unchanged.
\* The last-logged pair is what the last line of the log holds.  (The tick
\* that the interrupt cuts short ends the program; it writes at most its own
\* line and changes no last-logged pair.)
C1_ChangeLog ==
    [][ /\ (pc = "log" /\ pc' = "btnA") =>
              IF (IF prev_temp = None
                     THEN TRUE
                     ELSE \/ 10 * Abs(temperature_f - prev_temp[1]) > 3 * Scale
                          \/ 10 * Abs(humidity - prev_humidity[1]) > 3 * Scale)
                 THEN /\ logFile' = Append(logFile, Line(temperature_f, humidity))
                      /\ prev_temp' = <<temperature_f>>
                      /\ prev_humidity' = <<humidity>>
                 ELSE UNCHANGED <<logFile, prev_temp, prev_humidity>>
        /\ (~(pc = "log" /\ pc' = "btnA") /\ pc' # "exited") =>
              UNCHANGED <<logFile, prev_temp, prev_humidity>>
        /\ pc' = "exited" =>
              /\ UNCHANGED <<prev_temp, prev_humidity>>
              /\ pc # "log" => logFile' = logFile
        /\ (pc = "sleep" /\ pc' = "read") =>
              Count(trace', {"logged", "nolog"}) = 1
        /\ (prev_temp = None) <=> (logFile = <<>>)
        /\ (prev_temp = None) <=> (prev_humidity = None)
        /\ prev_temp # None =>
              Last(logFile) = Line(prev_temp[1], prev_humidity[1])
      ]_vars

\* C1 witness: a line was just written although the reading moved by no more
\* than 0.3 from the previous observed reading (a drift past the logged one)
C1_Witness ==
    /\ pc = "btnA"
    /\ Last(trace) = "logged"
    /\ Len(pushed) >= 3
    /\ Len(logFile) = 2
    /\ ~Exceeds(c_to_f(pushed[Len(pushed)][1]), c_to_f(pushed[Len(pushed) - 1][1]))
    /\ ~Exceeds(pushed[Len(pushed)][2], pushed[Len(pushed) - 1][2])

\* C2: the history holds exactly the most recent min(pushed, 900) samples, in
\* arrival order
C2_RingBuffer ==
    LET n == Len(pushed)
        m == IF n < MAXLEN THEN n ELSE MAXLEN
    IN  /\ Len(history) = m
        /\ history = SubSeq(pushed, n - m + 1, n)

\* C2 witness: two samples have been evicted from a full buffer
C2_Witness ==
    /\ Len(pushed) = MAXLEN + 2
    /\ Len(history) = MAXLEN
    /\ history[1] = pushed[3]
    /\ history[1] # pushed[1]

\* C3: a tick whose sensor read fails leaves the history, the last-logged
\* reading, both log files and the current reading as they were
C3_FailedRead ==
    [][ /\ ((pc = "read" /\ pc' = "backoff") \/ (pc = "backoff" /\ pc' = "read")) =>
              UNCHANGED <<history, pushed, prev_temp, prev_humidity, logFile,
                          snapFile, temperature_c, humidity>>
        /\ pc = "backoff" => trace = <<"read", "error">>
        /\ (pc = "backoff" /\ pc' = "read") => trace' = FailedReadTrace
      ]_vars

\* C3 witness: a failed tick has ended after earlier ticks filled the state
C3_Witness ==
    /\ pc = "read"
    /\ trace = FailedReadTrace
    /\ Len(history) = 2
    /\ Len(logFile) = 2
    /\ Len(snapFile) = 1

\* C4: the snapshot file gets exactly one new line, carrying the tick's
\* values, when button B is polled pressed, whether or not the tick wrote a
\* change-log line; it gets none otherwise; every completed tick polls B once
C4_Snapshot ==
    [][ /\ (pc = "btnB" /\ pc' \notin {"btnB", "exited"}) =>
              IF ~button_B'
                 THEN snapFile' = Append(snapFile, Line(temperature_f, humidity))
                 ELSE snapFile' = snapFile
        /\ pc # "btnB" => snapFile' = snapFile
        /\ (pc = "btnB" /\ pc' = "exited") =>
              snapFile' \in {snapFile, Append(snapFile, Line(temperature_f, humidity))}
        /\ (pc = "sleep" /\ pc' = "read") => Count(trace', {"B:up", "snap"}) = 1
      ]_vars

\* C4 witness: a second snapshot, written in a tick without a change-log line,
\* after a first one written in the tick that wrote the only change-log line
C4_Witness ==
    /\ pc = "snapHold"
    /\ Has(trace, "nolog")
    /\ Len(snapFile) = 2
    /\ Len(logFile) = 1
    /\ Len(pushed) = 2

\* C5: a tick runs sample, history update, render, change-log check, buttons,
\* sleep in this order, and the sensor is read only after the previous tick's
\* overlays were held for their full 3 s and 2 s and its 1 s sleep was done
C5_TickOrder ==
    [][ /\ \/ \E t \in TickTraces : IsPrefix(trace', t)
           \/ IsPrefix(trace', FailedReadTrace)
        /\ ReadStep =>
              /\ pc = "read"
              /\ trace \in TickTraces \cup {<<>>, FailedReadTrace}
              /\ trace \in TickTraces =>
                    Slept(trace) = 1 + (IF button_A THEN 0 ELSE 3)
                                     + (IF button_B THEN 0 ELSE 2)
        /\ pc \in {"avgHold", "snapHold"} => ~ReadStep
      ]_vars

\* C5 witness: the sensor is read after a tick that showed both overlays
C5_Witness ==
    /\ pc = "read"
    /\ Slept(trace) = 6
    /\ trace = <<"read", "append", "render", "nolog", "avg", "hold3",
                 "snap", "hold2", "sleep1">>

\* what every step does around a failed read: the failure leads to the
\* handler, however many reads failed before; the handler's sleep of 2 s is
\* the only sleep before the next read; the interrupt leaves the loop's data
\* as it was
C6Step ==
    /\ CaughtStep => pc' = "backoff" /\ consec' = consec + 1
    /\ (pc = "backoff" /\ pc' \notin {"exited", "crashed"}) =>
          /\ pc' = "read"
          /\ trace' = FailedReadTrace
          /\ Slept(trace') = 2
    /\ pc' = "exited" =>
          /\ UNCHANGED <<temperature_c, humidity, history, prev_temp,
                         prev_humidity, frame, trace, pushed, fails, consec>>
          /\ pc \in {"read", "backoff"} =>
                UNCHANGED <<progress, screen, button_A, button_B, logFile,
                            snapFile>>
    /\ (pc = "read" /\ pc' = "append") => trace' = <<"read">> /\ consec' = 0

\* C6 as amended: a failed read is followed by the 2 s backoff alone and then
\* by another read, however many reads failed before; the loop is ended by
\* the interrupt, or by the handler's own report (lines 173-174) raising
\* after a failure, and by nothing else
C6_Backoff ==
    [][ /\ C6Step
        /\ pc' = "crashed" =>
              /\ pc = "backoff"
              /\ UNCHANGED <<temperature_c, humidity, history, prev_temp,
                             prev_humidity, frame, progress, screen, button_A,
                             button_B, logFile, snapFile, trace, pushed, fails,
                             consec>>
        /\ pc' \in {"read", "append", "render", "log", "btnA", "avgHold",
                     "btnB", "snapHold", "sleep", "backoff", "exited", "crashed"}
      ]_vars

\* C6 as stated: the same, and only the interrupt ends the loop
C6_OnlyInterrupt ==
    [][ /\ C6Step
        /\ pc' \in {"read", "append", "render", "log", "btnA", "avgHold",
                     "btnB", "snapHold", "sleep", "backoff", "exited"}
      ]_vars

\* C6 witness: after as many consecutive failures as the bound allows the
\* read is attempted again, succeeds, and a normal tick is under way
C6_Witness ==
    /\ pc = "append"
    /\ fails = MaxFails
    /\ pushed = <<>>

\* C7: both buttons are polled in every tick that reaches them, after the
\* default view: a pressed A shows and holds the average view, a pressed B
\* writes the snapshot and holds the confirmation, A's overlay before B's
C7_Buttons ==
    pc = "sleep" =>
        /\ Has(trace, "render")
        /\ button_A <=> Has(trace, "A:up")
        /\ button_B <=> Has(trace, "B:up")
        /\ ~button_A =>
              /\ Has(trace, "avg") /\ Has(trace, "hold3")
              /\ Pos(trace, "render") < Pos(trace, "avg")
              /\ Pos(trace, "hold3") = Pos(trace, "avg") + 1
        /\ ~button_B =>
              /\ Has(trace, "snap") /\ Has(trace, "hold2")
              /\ Pos(trace, "render") < Pos(trace, "snap")
              /\ Pos(trace, "hold2") = Pos(trace, "snap") + 1
              /\ snapFile # <<>>
              /\ Last(snapFile) = Line(temperature_f, humidity)
        /\ (~button_A /\ ~button_B) => Pos(trace, "hold3") < Pos(trace, "snap")

\* C7 witness: both buttons were pressed in one tick
C7_Witness ==
    /\ pc = "sleep"
    /\ ~button_A
    /\ ~button_B

\* C8 as amended: the frame counter is twice the number of default views
\* rendered so far (it starts at 0, gains 2 with each render and nothing in a
\* tick whose sensor read fails), and the fill of the last render is the
\* frame of that render modulo 50, in 0..49
C8_Frame ==
    /\ frame = 2 * (Len(pushed) - (IF pc = "render" THEN 1 ELSE 0))
    /\ progress \in 0..(bar_width - 1)
    /\ frame > 0 => progress = (frame - 2) % bar_width
    /\ draw_running_indicator(0) = 0
    /\ draw_running_indicator(48) = 48
    /\ draw_running_indicator(50) = 0

\* C8 witness: the render at frame 50 drew a fill of 0, after a failed tick
C8_Witness ==
    /\ frame = 52
    /\ progress = 0
    /\ fails = 1

\* C8 as stated: the frame counter gains exactly 2 in every tick, so at a tick
\* boundary it is twice the number of ticks so far
C8_FramePerTick ==
    /\ pc = "read" => frame = 2 * (Len(pushed) + fails)
    /\ progress \in 0..(bar_width - 1)
    /\ frame > 0 => progress = (frame - 2) % bar_width

\* C9: button A is polled only with a non-empty history, so the empty branch
\* of draw_average_display is never taken and every press seen by the loop
\* draws the average view and holds it
C9_AverageNeverEmpty ==
    /\ pc = "btnA" => Len(history) > 0
    /\ ~Has(trace, "avg:empty")
    /\ pc = "avgHold" => ~button_A /\ screen = "average" /\ Last(trace) = "avg"
    /\ (pc = "btnB" /\ ~button_A) => Last(trace) = "hold3"

\* C9 witness: the average view is held in the very first tick
C9_Witness ==
    /\ pc = "avgHold"
    /\ Len(pushed) = 1
    /\ Len(history) = 1

\* C10: an exception raised by a later step of a tick is caught like a failed
\* read: the rest of the tick is dropped, the loop sleeps 2 s and reads again;
\* what the tick already did stays: the sample is in the history, a failed
\* log write leaves the last-logged reading behind the current one, a failed
\* render leaves the frame counter, a failed average view skips button B.
\* (The handler's own print raising is a second fault, of stdout: it ends the
\* program after a failed sensor read and after these failures alike.)
C10_LaterFailures ==
    [][ /\ CaughtStep =>
              /\ pc' = "backoff"
              /\ Last(trace') = "error"
              /\ UNCHANGED <<temperature_c, humidity, history, pushed,
                             prev_temp, prev_humidity, frame, screen>>
        /\ (CaughtStep /\ pc \in {"read", "append", "render", "log"}) =>
              UNCHANGED <<button_A, button_B>>
        /\ (CaughtStep /\ pc = "btnA") =>
              /\ button_B' = button_B
              /\ ~Has(trace', "B:up") /\ ~Has(trace', "snap")
        /\ (CaughtStep /\ pc = "btnB") => button_A' = button_A
        /\ (CaughtStep /\ pc \in {"render", "log", "btnA", "btnB"}) =>
              /\ history # <<>>
              /\ Last(history) = <<temperature_c, humidity>>
        /\ (CaughtStep /\ pc = "log") =>
              /\ \/ prev_temp' = None
                 \/ <<prev_temp'[1], prev_humidity'[1]>> # <<temperature_f, humidity>>
              /\ \/ logFile' = logFile
                 \/ /\ Len(logFile') = Len(logFile) + 1
                    /\ SubSeq(logFile', 1, Len(logFile)) = logFile
                    /\ Last(logFile') \in Torn(Line(temperature_f, humidity))
        /\ (CaughtStep /\ pc # "log") => logFile' = logFile
        /\ (CaughtStep /\ pc # "btnB") => snapFile' = snapFile
        /\ (pc = "backoff" /\ pc' \notin {"exited", "crashed"}) =>
              /\ pc' = "read"
              /\ trace' = Append(trace, "sleep2")
              /\ UNCHANGED <<temperature_c, humidity, history, pushed,
                             prev_temp, prev_humidity, frame, progress,
                             logFile, snapFile, screen, button_A, button_B>>
      ]_vars

\* C10 witness: a tick ended by a failed change-log write, with an older
\* last-logged reading and the tick's sample in the history
C10_Witness ==
    /\ pc = "read"
    /\ trace = <<"read", "append", "render", "log!", "error", "sleep2">>
    /\ prev_temp # None
    /\ Last(history) = <<temperature_c, humidity>>
    /\ frame = 4

====
